---- MODULE Spec2Model ----
(***************************************************************************)
(* The external read-only JSON API of wealthfolio.                         *)
(*                                                                         *)
(* Three implementations of the API live in the repository:                *)
(*   core   src-core/src/external_api.rs   ExternalApiService and the      *)
(*          framework-free handler functions that wrap it;                 *)
(*   server src-server/src/external_api.rs an axum router with inline      *)
(*          handlers;                                                      *)
(*   tauri  src-tauri/src/external_api.rs  the same for the desktop app.   *)
(*                                                                         *)
(* A request is a little process: it is dispatched, makes provider calls   *)
(* one after the other and ends with a JSON body.  The providers (settings,*)
(* accounts, holdings, fx, market data, performance, activities) are       *)
(* outside the modelled code: every call of one returns, nondeterministic- *)
(* ally, a failure or a value.                                             *)
(***************************************************************************)
EXTENDS Integers, Sequences, FiniteSets, TLC

\* ------------------------------------------------------------------ bounds
\* Number of account ids, and longest account list the provider returns.
MaxAccounts == 2
\* Longest holdings list the holdings provider returns for one account.
MaxHoldings == 2
\* Longest list returned by the other list providers.
MaxItems == 2

\* ------------------------------------------------------------ small universes
Reqs == {"r1", "r2"}
Solo == {"r1"}
Currencies == {"USD", "EUR"}
Errors == {"database", "not_found"}
Symbols == {"AAPL"}
AccountIds == 1..MaxAccounts

\* Option<T>: None is the empty sequence, Some(x) the one-element sequence.
None == <<>>
Some(x) == <<x>>
IsSome(o) == Len(o) = 1

\* Result<T>
Ok(v) == <<"Ok", v>>
Err(e) == <<"Err", e>>
IsOk(res) == res[1] = "Ok"
IsErr(res) == res[1] = "Err"
Pending == <<"Pending">>

RECURSIVE Concat(_)
Concat(lists) ==
    IF lists = <<>> THEN <<>> ELSE Head(lists) \o Concat(Tail(lists))

Map(F(_), s) == [i \in 1..Len(s) |-> F(s[i])]

\* Sequences over S without repetition, of length at most n.
RECURSIVE DistinctSeqs(_, _)
DistinctSeqs(S, n) ==
    IF n = 0 THEN {<<>>}
    ELSE LET shorter == DistinctSeqs(S, n - 1)
             longer == {Append(s, x) : s \in shorter, x \in S}
         IN  shorter \cup
                 {t \in longer : \A i, j \in 1..Len(t) : i # j => t[i] # t[j]}

\* --------------------------------------------------------------- JSON values
\* serde_json::Value, tagged by its kind.
JNull == <<"null">>
JStr(s) == <<"string", s>>
JNum(n) == <<"number", n>>
JBool(b) == <<"bool", b>>
JArr(s) == <<"array", s>>
JObj(rec) == <<"object", rec>>
IsNull(v) == v[1] = "null"
IsObj(v) == v[1] = "object"
Keys(v) == DOMAIN v[2]
Get(v, k) == v[2][k]
Items(v) == v[2]

\* A string built by format!: the literal pieces and the displayed arguments.
\* to_rfc3339 / to_string of a date: the text of the instant, not the instant.
Rfc3339(t) == <<"rfc3339", t>>
DateString(d) == <<"date", d>>

\* json! of an Option: null for None, the value's JSON for Some.
OptJson(F(_), o) == IF IsSome(o) THEN F(o[1]) ELSE JNull

\* ------------------------------------------------------------ domain entities
\* The entities are the providers'; the API reads the fields named here.
Account(k) ==
    [id |-> k, name |-> <<"account", k>>, account_type |-> "SECURITIES",
     currency |-> "USD", is_active |-> TRUE]

Instrument(k) ==
    [id |-> <<"asset", k>>, symbol |-> <<"SYM", k>>, name |-> <<"name", k>>,
     currency |-> "USD", asset_class |-> "Equity", asset_subclass |-> "Stock",
     countries |-> <<"US">>, sectors |-> <<"Tech">>]

\* A local+base pair; the two amounts differ.
Money(k) == [local |-> 10 * k, base |-> 10 * k + 1]

\* The optional fields of a Holding.
OptFields ==
    {"instrument", "open_date", "cost_basis", "unrealized_gain",
     "realized_gain", "total_gain", "day_change"}

\* Holding number k of account a valued in base currency C, with the optional
\* fields of `present` set.  Holdings of different accounts share instruments.
MakeHolding(a, C, k, present) ==
    LET opt(f, v) == IF f \in present THEN Some(v) ELSE None
    IN  [id |-> <<"holding", a, k>>,
         account_id |-> a,
         holding_type |-> "security",
         instrument |-> opt("instrument", Instrument(k)),
         quantity |-> k,
         open_date |-> opt("open_date", k),
         local_currency |-> "USD",
         base_currency |-> C,
         fx_rate |-> 1,
         market_value |-> Money(k),
         cost_basis |-> opt("cost_basis", Money(k + 1)),
         price |-> k,
         unrealized_gain |-> opt("unrealized_gain", Money(k + 2)),
         unrealized_gain_pct |-> opt("unrealized_gain", k),
         realized_gain |-> opt("realized_gain", Money(k + 3)),
         realized_gain_pct |-> opt("realized_gain", k),
         total_gain |-> opt("total_gain", Money(k + 4)),
         total_gain_pct |-> opt("total_gain", k),
         day_change |-> opt("day_change", Money(k + 5)),
         day_change_pct |-> opt("day_change", k),
         weight |-> k,
         as_of_date |-> k]

\* Odd holdings have every optional field, even ones none.
SampleHolding(a, C, k) ==
    MakeHolding(a, C, k, IF k % 2 = 1 THEN OptFields ELSE {})

ExchangeRate(k) ==
    [from_currency |-> "USD", to_currency |-> "EUR", rate |-> k, timestamp |-> k]

QuoteSummary(q, k) ==
    [symbol |-> <<q, k>>, exchange |-> "NMS", short_name |-> <<"name", k>>,
     quote_type |-> "EQUITY"]

Quote(sym, k) ==
    [id |-> <<"quote", sym, k>>, symbol |-> sym, timestamp |-> k, open |-> k,
     high |-> k + 1, low |-> k, close |-> k, volume |-> k, currency |-> "USD",
     data_source |-> "YAHOO"]

PerformanceMetrics(id, hasPeriod) ==
    [id |-> id, currency |-> "USD",
     period_start_date |-> IF hasPeriod THEN Some(1) ELSE None,
     period_end_date |-> IF hasPeriod THEN Some(2) ELSE None,
     cumulative_twr |-> 1, gain_loss_amount |-> Some(2), annualized_twr |-> 3,
     simple_return |-> 4, annualized_simple_return |-> 5, volatility |-> 6,
     max_drawdown |-> 7]

SimplePerformanceMetrics(a) ==
    [account_id |-> a, total_value |-> Some(a), account_currency |-> Some("USD"),
     base_currency |-> Some("USD"), fx_rate_to_base |-> Some(1),
     total_gain_loss_amount |-> Some(a), cumulative_return_percent |-> Some(a),
     day_gain_loss_amount |-> Some(a), day_return_percent_mod_dietz |-> Some(a),
     portfolio_weight |-> Some(a)]

Activity(a, k) ==
    [id |-> <<"activity", a, k>>, account_id |-> a, activity_type |-> "BUY",
     activity_date |-> k, asset_id |-> <<"asset", k>>, quantity |-> k,
     unit_price |-> k, currency |-> "USD", fee |-> 0, amount |-> Some(k)]

\* ------------------------------------------------------------ JSON projection
\* Mutant: the pair written with its local amount only.
MonetaryJson_LocalOnly(m) == JObj([local |-> JNum(m.local)])

\* A {local, base} pair as it is written for marketValue and, under map, for
\* the optional pairs.
MonetaryJson(m) == JObj([local |-> JNum(m.local), base |-> JNum(m.base)])

JDate(t) == JStr(Rfc3339(t))

\* The instrument object of the core and of the tauri handler.
InstrumentJson(inst) ==
    JObj([id |-> JStr(inst.id),
          symbol |-> JStr(inst.symbol),
          name |-> JStr(inst.name),
          currency |-> JStr(inst.currency),
          assetClass |-> JStr(inst.asset_class),
          assetSubclass |-> JStr(inst.asset_subclass),
          countries |-> JArr(Map(JStr, inst.countries)),
          sectors |-> JArr(Map(JStr, inst.sectors))])

\* The instrument object of the server handler.
ServerInstrumentJson(inst) ==
    JObj([id |-> JStr(inst.id),
          symbol |-> JStr(inst.symbol),
          name |-> JStr(inst.name),
          currency |-> JStr(inst.currency),
          assetClass |-> JStr(inst.asset_class),
          assetSubclass |-> JStr(inst.asset_subclass)])

\* One holding's object; `instrument` is its projected instrument.
HoldingJson(h, instrument) ==
    JObj([id |-> JStr(h.id),
          accountId |-> JStr(h.account_id),
          holdingType |-> JStr(h.holding_type),
          instrument |-> instrument,
          quantity |-> JNum(h.quantity),
          openDate |-> OptJson(JDate, h.open_date),
          localCurrency |-> JStr(h.local_currency),
          baseCurrency |-> JStr(h.base_currency),
          fxRate |-> JNum(h.fx_rate),
          marketValue |-> MonetaryJson(h.market_value),
          costBasis |-> OptJson(MonetaryJson, h.cost_basis),
          price |-> JNum(h.price),
          unrealizedGain |-> OptJson(MonetaryJson, h.unrealized_gain),
          unrealizedGainPct |-> OptJson(JNum, h.unrealized_gain_pct),
          realizedGain |-> OptJson(MonetaryJson, h.realized_gain),
          realizedGainPct |-> OptJson(JNum, h.realized_gain_pct),
          totalGain |-> OptJson(MonetaryJson, h.total_gain),
          totalGainPct |-> OptJson(JNum, h.total_gain_pct),
          dayChange |-> OptJson(MonetaryJson, h.day_change),
          dayChangePct |-> OptJson(JNum, h.day_change_pct),
          weight |-> JNum(h.weight),
          asOfDate |-> JStr(DateString(h.as_of_date))])

holdings_to_json(holdings) ==
    LET one(h) == HoldingJson(h, OptJson(InstrumentJson, h.instrument))
    IN  Map(one, holdings)

server_holdings_data(holdings) ==
    LET one(h) == HoldingJson(h, OptJson(ServerInstrumentJson, h.instrument))
    IN  Map(one, holdings)

tauri_holdings_data(holdings) ==
    LET one(h) == HoldingJson(h, OptJson(InstrumentJson, h.instrument))
    IN  Map(one, holdings)

HoldingsData(impl, holdings) ==
    CASE impl = "core" -> holdings_to_json(holdings)
      [] impl = "server" -> server_holdings_data(holdings)
      [] impl = "tauri" -> tauri_holdings_data(holdings)

accounts_to_json(accounts) ==
    LET one(a) == JObj([id |-> JStr(a.id), name |-> JStr(a.name),
                        accountType |-> JStr(a.account_type),
                        currency |-> JStr(a.currency),
                        isActive |-> JBool(a.is_active)])
    IN  Map(one, accounts)

exchange_rates_to_json(rates) ==
    LET one(r) == JObj([from |-> JStr(r.from_currency),
                        to |-> JStr(r.to_currency),
                        rate |-> JNum(r.rate),
                        timestamp |-> JDate(r.timestamp)])
    IN  Map(one, rates)

quote_summaries_to_json(summaries) ==
    LET one(s) == JObj([symbol |-> JStr(s.symbol), exchange |-> JStr(s.exchange),
                        name |-> JStr(s.short_name), type |-> JStr(s.quote_type)])
    IN  Map(one, summaries)

quote_to_json(quote) ==
    JObj([id |-> JStr(quote.id), symbol |-> JStr(quote.symbol),
          timestamp |-> JDate(quote.timestamp), open |-> JNum(quote.open),
          high |-> JNum(quote.high), low |-> JNum(quote.low),
          close |-> JNum(quote.close), volume |-> JNum(quote.volume),
          currency |-> JStr(quote.currency),
          dataSource |-> JStr(quote.data_source)])

quotes_to_json(quotes) == Map(quote_to_json, quotes)

performance_to_json(performance) ==
    LET date(d) == JStr(DateString(d))
    IN  JObj([id |-> JStr(performance.id),
              currency |-> JStr(performance.currency),
              periodStartDate |-> OptJson(date, performance.period_start_date),
              periodEndDate |-> OptJson(date, performance.period_end_date),
              cumulativeTWR |-> JNum(performance.cumulative_twr),
              gainLossAmount |-> OptJson(JNum, performance.gain_loss_amount),
              annualizedTWR |-> JNum(performance.annualized_twr),
              simpleReturn |-> JNum(performance.simple_return),
              annualizedSimpleReturn |-> JNum(performance.annualized_simple_return),
              volatility |-> JNum(performance.volatility),
              maxDrawdown |-> JNum(performance.max_drawdown)])

simple_performances_to_json(performances) ==
    LET one(p) ==
            JObj([accountId |-> JStr(p.account_id),
                  totalValue |-> OptJson(JNum, p.total_value),
                  accountCurrency |-> OptJson(JStr, p.account_currency),
                  baseCurrency |-> OptJson(JStr, p.base_currency),
                  fxRateToBase |-> OptJson(JNum, p.fx_rate_to_base),
                  totalGainLossAmount |-> OptJson(JNum, p.total_gain_loss_amount),
                  cumulativeReturnPercent |-> OptJson(JNum, p.cumulative_return_percent),
                  dayGainLossAmount |-> OptJson(JNum, p.day_gain_loss_amount),
                  dayReturnPercentModDietz |-> OptJson(JNum, p.day_return_percent_mod_dietz),
                  portfolioWeight |-> OptJson(JNum, p.portfolio_weight)])
    IN  Map(one, performances)

\* Mutant: the activities written last record first.
activities_to_json_Reversed(activities) ==
    [i \in 1..Len(activities) |->
        JObj([id |-> JStr(activities[Len(activities) + 1 - i].id)])]

activities_to_json(activities) ==
    LET one(a) == JObj([id |-> JStr(a.id), accountId |-> JStr(a.account_id),
                        activityType |-> JStr(a.activity_type),
                        date |-> JDate(a.activity_date),
                        assetId |-> JStr(a.asset_id),
                        quantity |-> JNum(a.quantity),
                        price |-> JNum(a.unit_price),
                        currency |-> JStr(a.currency),
                        fee |-> JNum(a.fee),
                        totalAmount |-> OptJson(JNum, a.amount)])
    IN  Map(one, activities)

\* -------------------------------------------------------------------- bodies
ErrorBody(message) == JObj([error |-> JStr(message)])

\* The literal of the unset base currency.
BaseCurrencyNotSet == ErrorBody(<<"Base currency not set">>)

HoldingsBody(holdings_data, base_currency) ==
    JObj([holdings |-> JArr(holdings_data), baseCurrency |-> JStr(base_currency)])

\* What a request has before its handler answered, and the answer of a router
\* that has no route for the path.
NoBody == <<"none">>
NotFound == <<"404">>
NoResult == <<"none">>

\* ------------------------------------------------------------------- routing
\* The HTTP surface: the twelve GET routes.
HttpSurface ==
    {"/api/health", "/", "/api/portfolio/holdings", "/api/portfolio/accounts",
     "/api/exchange-rates", "/api/settings/base-currency",
     "/api/market-data/search", "/api/market-data/quotes/{symbol}",
     "/api/market-data/historical/{symbol}",
     "/api/portfolio/performance/{account_id}",
     "/api/portfolio/performance/summary", "/api/portfolio/activities"}

\* create_external_api_router of the server and of the tauri application:
\* path -> handler.
server_router ==
    [path \in {"/api/health", "/", "/api/portfolio/holdings",
               "/api/portfolio/accounts", "/api/exchange-rates",
               "/api/settings/base-currency"} |->
        CASE path = "/api/health" -> "health_handler"
          [] path = "/" -> "root_handler"
          [] path = "/api/portfolio/holdings" -> "portfolio_holdings_handler"
          [] path = "/api/portfolio/accounts" -> "portfolio_accounts_handler"
          [] path = "/api/exchange-rates" -> "exchange_rates_handler"
          [] path = "/api/settings/base-currency" -> "base_currency_handler"]

tauri_router ==
    [path \in {"/api/health", "/", "/api/portfolio/holdings",
               "/api/portfolio/accounts", "/api/exchange-rates",
               "/api/settings/base-currency"} |->
        CASE path = "/api/health" -> "health_handler"
          [] path = "/" -> "root_handler"
          [] path = "/api/portfolio/holdings" -> "portfolio_holdings_handler"
          [] path = "/api/portfolio/accounts" -> "portfolio_accounts_handler"
          [] path = "/api/exchange-rates" -> "exchange_rates_handler"
          [] path = "/api/settings/base-currency" -> "base_currency_handler"]

Router(impl) == IF impl = "server" THEN server_router ELSE tauri_router

\* The handler functions of the core, callable with a service.
CoreHandlers ==
    {"health_handler", "root_handler", "portfolio_holdings_handler",
     "portfolio_accounts_handler", "exchange_rates_handler",
     "base_currency_handler", "market_data_search_handler", "quote_handler",
     "historical_quotes_handler", "account_performance_handler",
     "portfolio_performance_summary_handler", "activities_handler"}

\* Handlers that read an optional account id from the query.
TakesOptionalAccount == {"portfolio_holdings_handler", "activities_handler"}
TakesAccount == {"account_performance_handler"}
TakesSymbol == {"quote_handler", "historical_quotes_handler",
                "market_data_search_handler"}

OptAccountIds == {None} \cup {Some(a) : a \in AccountIds}

\* -------------------------------------------------------------------- state
VARIABLES
    settings,        \* the settings provider's base currency: an Option
    config_port,     \* ExternalApiConfig.port the routers were created with
    pc,              \* per request: where it is
    req,             \* per request: implementation, path, handler, parameters
    base_currency,   \* per request: local base_currency of the holdings code
    accounts,        \* per request: local accounts
    next_account,    \* per request: position of `for account in accounts`
    all_holdings,    \* per request: local all_holdings
    calls,           \* per request: the provider calls made, with results
    stderr,          \* per request: lines written with eprintln!
    service_result,  \* per request: what the core service returned
    response         \* per request: the JSON body answered

vars ==
    <<settings, config_port, pc, req, base_currency, accounts, next_account,
      all_holdings, calls, stderr, service_result, response>>

locals == <<base_currency, accounts, next_account, all_holdings>>

DefaultPort == 3333
Ports == {DefaultPort, 8080}
Times == {1, 2}

NoReq ==
    [impl |-> "none", via |-> "none", path |-> "none", handler |-> "none",
     account_id |-> None, symbol |-> None]

Init ==
    /\ settings \in {None} \cup {Some(c) : c \in Currencies}
    /\ config_port \in Ports
    /\ pc = [r \in Reqs |-> "idle"]
    /\ req = [r \in Reqs |-> NoReq]
    /\ base_currency = [r \in Reqs |-> None]
    /\ accounts = [r \in Reqs |-> <<>>]
    /\ next_account = [r \in Reqs |-> 1]
    /\ all_holdings = [r \in Reqs |-> <<>>]
    /\ calls = [r \in Reqs |-> <<>>]
    /\ stderr = [r \in Reqs |-> <<>>]
    /\ service_result = [r \in Reqs |-> NoResult]
    /\ response = [r \in Reqs |-> NoBody]

\* ------------------------------------------------------------ provider calls
Call(provider, args, result) ==
    [provider |-> provider, args |-> args, result |-> result]

\* The calls of request r that were issued and have not returned.
Outstanding(r) ==
    {k \in 1..Len(calls[r]) : calls[r][k].result = Pending}

\* Mutant: the call is spawned and not awaited.
Awaited_Spawned(r) == TRUE

\* `.await`: the code after it runs once the awaited call has returned.
Awaited(r) == Outstanding(r) = {}

\* A call that returns at once.
Returned(r, provider, args, result) ==
    calls' = [calls EXCEPT ![r] = Append(@, Call(provider, args, result))]

\* A call that is issued and awaited.
Issue(r, provider, args) ==
    calls' = [calls EXCEPT ![r] = Append(@, Call(provider, args, Pending))]

Resolve(r, k, result) ==
    calls' = [calls EXCEPT ![r][k].result = result]

\* The holdings provider's possible lists for an account and a base currency.
SampleLists(a, C) ==
    {[k \in 1..n |-> SampleHolding(a, C, k)] : n \in 0..MaxHoldings}

\* One holding with any combination of its optional fields.
ShapeLists(a, C) ==
    {<<MakeHolding(a, C, 1, present)>> : present \in SUBSET OptFields}

\* What the provider may return for the one account of a single-account request.
SingleLists(a, C) == SampleLists(a, C) \cup ShapeLists(a, C)

AccountLists == {Map(Account, ids) : ids \in DistinctSeqs(AccountIds, MaxAccounts)}

Failures == {Err(e) : e \in Errors}

\* ----------------------------------------------------------------- answering
Respond(r, body) ==
    /\ response' = [response EXCEPT ![r] = body]
    /\ pc' = [pc EXCEPT ![r] = "done"]

\* Mutant: the handler answers a failure with empty data beside the error.
CoreHandlerBody_Mixed(q, result) ==
    IF IsOk(result) THEN result[2]
    ELSE JObj([error |-> JStr(<<"Internal server error: ", result[2]>>),
               data |-> JArr(<<>>)])

\* The core handlers: the service's Ok value as it is, its Err under the
\* handler's own message.
CoreHandlerMessage(q, e) ==
    CASE q.handler = "portfolio_holdings_handler" ->
             <<"Internal server error: ", e>>
      [] q.handler = "portfolio_accounts_handler" ->
             <<"Failed to get accounts: ", e>>
      [] q.handler = "exchange_rates_handler" ->
             <<"Failed to get exchange rates: ", e>>
      [] q.handler = "base_currency_handler" ->
             <<"Failed to get base currency: ", e>>
      [] q.handler = "market_data_search_handler" ->
             <<"Failed to search market data: ", e>>
      [] q.handler = "quote_handler" ->
             <<"Failed to get quote for ", q.symbol[1], ": ", e>>
      [] q.handler = "historical_quotes_handler" ->
             <<"Failed to get historical quotes for ", q.symbol[1], ": ", e>>
      [] q.handler = "account_performance_handler" ->
             <<"Failed to get performance for account ", q.account_id[1], ": ", e>>
      [] q.handler = "portfolio_performance_summary_handler" ->
             <<"Failed to get portfolio performance summary: ", e>>
      [] q.handler = "activities_handler" ->
             <<"Failed to get activities: ", e>>

CoreHandlerBody(q, result) ==
    IF IsOk(result) THEN result[2]
    ELSE ErrorBody(CoreHandlerMessage(q, result[2]))

\* The service returns `result` to its handler, which answers.
ServiceReturns(r, result) ==
    /\ service_result' = [service_result EXCEPT ![r] = result]
    /\ Respond(r, CoreHandlerBody(req[r], result))

\* An inline handler (server, tauri) answers.
HandlerReturns(r, body) ==
    /\ Respond(r, body)
    /\ UNCHANGED service_result

\* ------------------------------------------------------------------ dispatch
\* A GET on a path of the HTTP surface arrives at a router.
Dispatch(r) ==
    /\ pc[r] = "idle"
    /\ \E impl \in {"server", "tauri"}, path \in HttpSurface,
          account_id \in OptAccountIds :
        /\ account_id # None => path \in {"/api/portfolio/holdings",
                                          "/api/portfolio/activities"}
        /\ IF path \in DOMAIN Router(impl)
           THEN /\ req' = [req EXCEPT ![r] =
                       [impl |-> impl, via |-> "router", path |-> path,
                        handler |-> Router(impl)[path],
                        account_id |-> account_id, symbol |-> None]]
                /\ pc' = [pc EXCEPT ![r] = Router(impl)[path]]
                /\ UNCHANGED response
           ELSE /\ req' = [req EXCEPT ![r] =
                       [impl |-> impl, via |-> "router", path |-> path,
                        handler |-> "none",
                        account_id |-> account_id, symbol |-> None]]
                /\ Respond(r, NotFound)
    /\ UNCHANGED <<settings, config_port, locals, calls, stderr, service_result>>

\* A handler function of the core is called with its parameters.
CoreCall(r) ==
    /\ pc[r] = "idle"
    /\ \E handler \in CoreHandlers, account_id \in OptAccountIds,
          symbol \in {None} \cup {Some(s) : s \in Symbols} :
        /\ handler \in TakesAccount => account_id # None
        /\ handler \notin TakesAccount \cup TakesOptionalAccount => account_id = None
        /\ handler \in TakesSymbol <=> symbol # None
        /\ req' = [req EXCEPT ![r] =
               [impl |-> "core", via |-> "call", path |-> "none",
                handler |-> handler, account_id |-> account_id,
                symbol |-> symbol]]
        /\ pc' = [pc EXCEPT ![r] = handler]
    /\ UNCHANGED <<settings, config_port, locals, calls, stderr, service_result,
                   response>>

\* ------------------------------------------------------------- health, root
create_health_response(port, now) ==
    JObj([status |-> JStr("ok"), timestamp |-> JDate(now), port |-> JNum(port)])

create_root_response(port) ==
    JObj([message |-> JStr("Wealthfolio External API"),
          status |-> JStr("running"), port |-> JNum(port)])

\* The port each implementation's health and root handlers report.
HandlerPort(impl) == IF impl = "server" THEN DefaultPort ELSE config_port

health_handler(r) ==
    /\ pc[r] = "health_handler"
    /\ \E now \in Times :
        Respond(r, create_health_response(HandlerPort(req[r].impl), now))
    /\ UNCHANGED <<settings, config_port, req, locals, calls, stderr,
                   service_result>>

root_handler(r) ==
    /\ pc[r] = "root_handler"
    /\ Respond(r, create_root_response(HandlerPort(req[r].impl)))
    /\ UNCHANGED <<settings, config_port, req, locals, calls, stderr,
                   service_result>>

\* ------------------------------------------------------------------ holdings
\* The messages of a failed prerequisite or single-account call.
SettingsFailed(r, e) ==
    IF req[r].impl = "core" THEN ServiceReturns(r, Err(e))
    ELSE HandlerReturns(r, ErrorBody(<<"Failed to get base currency: ", e>>))

\* Mutant: a failed account listing is taken as no accounts.
AccountsFailed_Skipped(r, e) ==
    LET body == HoldingsBody(<<>>, base_currency[r][1])
    IN  IF req[r].impl = "core" THEN ServiceReturns(r, Ok(body))
        ELSE HandlerReturns(r, body)

AccountsFailed(r, e) ==
    IF req[r].impl = "core" THEN ServiceReturns(r, Err(e))
    ELSE HandlerReturns(r, ErrorBody(<<"Failed to get accounts: ", e>>))

\* match holdings_result: the answer of the holdings code.
HoldingsAnswer(r, holdings_result) ==
    LET impl == req[r].impl
        body == IF IsOk(holdings_result)
                THEN HoldingsBody(HoldingsData(impl, holdings_result[2]),
                                  base_currency[r][1])
                ELSE ErrorBody(holdings_result[2])
    IN  IF impl = "core" THEN ServiceReturns(r, Ok(body))
        ELSE HandlerReturns(r, body)

\* Mutant: the failure is reported without its cause.
SingleAccountError_Opaque(impl, account_id, e) ==
    <<"Failed to get holdings for account">>

\* The failure of the single-account call as each implementation words it.
SingleAccountError(impl, account_id, e) ==
    IF impl = "core" THEN <<e>>
    ELSE <<"Failed to get holdings for account ", account_id, ": ", e>>

\* let base_currency = match settings_service.get_base_currency()
get_base_currency_failed(r) ==
    /\ pc[r] = "portfolio_holdings_handler"
    /\ \E e \in Errors :
        /\ Returned(r, "settings.get_base_currency", <<>>, Err(e))
        /\ SettingsFailed(r, e)
    /\ UNCHANGED <<settings, config_port, req, locals, stderr>>

\* Mutant: an unset base currency falls back to a default and the request
\* goes on.
get_base_currency_unset_or_default(r) ==
    /\ pc[r] = "portfolio_holdings_handler"
    /\ settings = None
    /\ Returned(r, "settings.get_base_currency", <<>>, Ok(None))
    /\ base_currency' = [base_currency EXCEPT ![r] = Some("USD")]
    /\ pc' = [pc EXCEPT ![r] =
           IF req[r].account_id # None THEN "get_holdings_single"
           ELSE "get_all_accounts"]
    /\ UNCHANGED <<settings, config_port, req, accounts, next_account,
                   all_holdings, stderr, service_result, response>>

get_base_currency_unset(r) ==
    /\ pc[r] = "portfolio_holdings_handler"
    /\ settings = None
    /\ Returned(r, "settings.get_base_currency", <<>>, Ok(None))
    /\ IF req[r].impl = "core" THEN ServiceReturns(r, Ok(BaseCurrencyNotSet))
       ELSE HandlerReturns(r, BaseCurrencyNotSet)
    /\ UNCHANGED <<settings, config_port, req, locals, stderr>>

get_base_currency_set(r) ==
    /\ pc[r] = "portfolio_holdings_handler"
    /\ settings # None
    /\ Returned(r, "settings.get_base_currency", <<>>, Ok(settings))
    /\ base_currency' = [base_currency EXCEPT ![r] = settings]
    /\ pc' = [pc EXCEPT ![r] =
           IF req[r].account_id # None THEN "get_holdings_single"
           ELSE "get_all_accounts"]
    /\ UNCHANGED <<settings, config_port, req, accounts, next_account,
                   all_holdings, stderr, service_result, response>>

\* if let Some(account_id) = account_id: the one call is issued ...
get_holdings_single(r) ==
    /\ pc[r] = "get_holdings_single"
    /\ Issue(r, "holdings.get_holdings",
             <<req[r].account_id[1], base_currency[r][1]>>)
    /\ pc' = [pc EXCEPT ![r] = "await_single"]
    /\ UNCHANGED <<settings, config_port, req, locals, stderr, service_result,
                   response>>

\* ... and its result is the holdings_result.
await_single(r) ==
    /\ pc[r] = "await_single"
    /\ \E k \in Outstanding(r) :
       \E result \in Failures \cup
                     {Ok(l) : l \in SingleLists(req[r].account_id[1],
                                                base_currency[r][1])} :
        /\ Resolve(r, k, result)
        /\ HoldingsAnswer(r,
               IF IsOk(result) THEN result
               ELSE Err(SingleAccountError(req[r].impl, req[r].account_id[1],
                                           result[2])))
    /\ UNCHANGED <<settings, config_port, req, locals, stderr>>

\* let accounts = account_service.get_all_accounts()
get_all_accounts_failed(r) ==
    /\ pc[r] = "get_all_accounts"
    /\ \E e \in Errors :
        /\ Returned(r, "accounts.get_all_accounts", <<>>, Err(e))
        /\ AccountsFailed(r, e)
    /\ UNCHANGED <<settings, config_port, req, locals, stderr>>

get_all_accounts_ok(r) ==
    /\ pc[r] = "get_all_accounts"
    /\ \E accs \in AccountLists :
        /\ Returned(r, "accounts.get_all_accounts", <<>>, Ok(accs))
        /\ accounts' = [accounts EXCEPT ![r] = accs]
    /\ next_account' = [next_account EXCEPT ![r] = 1]
    /\ all_holdings' = [all_holdings EXCEPT ![r] = <<>>]
    /\ pc' = [pc EXCEPT ![r] = "for_account"]
    /\ UNCHANGED <<settings, config_port, req, base_currency, stderr,
                   service_result, response>>

\* Mutant: the base currency is read again for each account's call.
for_account_call_reread(r) ==
    /\ pc[r] = "for_account"
    /\ Awaited(r)
    /\ next_account[r] <= Len(accounts[r])
    /\ Issue(r, "holdings.get_holdings",
             <<accounts[r][next_account[r]].id,
               IF settings = None THEN base_currency[r][1] ELSE settings[1]>>)
    /\ next_account' = [next_account EXCEPT ![r] = @ + 1]
    /\ UNCHANGED <<settings, config_port, pc, req, base_currency, accounts,
                   all_holdings, stderr, service_result, response>>

\* for account in accounts: the call for the next account is issued ...
for_account_call(r) ==
    /\ pc[r] = "for_account"
    /\ Awaited(r)
    /\ next_account[r] <= Len(accounts[r])
    /\ Issue(r, "holdings.get_holdings",
             <<accounts[r][next_account[r]].id, base_currency[r][1]>>)
    /\ next_account' = [next_account EXCEPT ![r] = @ + 1]
    /\ UNCHANGED <<settings, config_port, pc, req, base_currency, accounts,
                   all_holdings, stderr, service_result, response>>

\* Mutant: the account's holdings replace what was collected.
AppendHoldings_Replace(all, holdings) == holdings

\* Ok(mut holdings) => all_holdings.append(&mut holdings)
AppendHoldings(all, holdings) == all \o holdings

\* Mutant: the accumulator is one vector shared by the requests in flight.
for_account_result_shared(r) ==
    /\ pc[r] = "for_account"
    /\ \E k \in Outstanding(r) :
       \E result \in Failures \cup
                     {Ok(l) : l \in SampleLists(calls[r][k].args[1],
                                                calls[r][k].args[2])} :
        /\ Resolve(r, k, result)
        /\ IF IsOk(result)
           THEN /\ all_holdings' = [q \in Reqs |->
                                        IF pc[q] = "for_account"
                                        THEN AppendHoldings(all_holdings[q], result[2])
                                        ELSE all_holdings[q]]
                /\ UNCHANGED stderr
           ELSE /\ stderr' = [stderr EXCEPT ![r] =
                      Append(@, <<"Failed to get holdings for account ",
                                  calls[r][k].args[1], ": ", result[2]>>)]
                /\ UNCHANGED all_holdings
    /\ UNCHANGED <<settings, config_port, pc, req, base_currency, accounts,
                   next_account, service_result, response>>

\* Mutant: the first failed account ends the loop.
for_account_result_break(r) ==
    /\ pc[r] = "for_account"
    /\ \E k \in Outstanding(r) :
       \E result \in Failures \cup
                     {Ok(l) : l \in SampleLists(calls[r][k].args[1],
                                                calls[r][k].args[2])} :
        /\ Resolve(r, k, result)
        /\ IF IsOk(result)
           THEN /\ all_holdings' = [all_holdings EXCEPT ![r] =
                                        AppendHoldings(@, result[2])]
                /\ UNCHANGED <<stderr, next_account>>
           ELSE /\ stderr' = [stderr EXCEPT ![r] =
                      Append(@, <<"Failed to get holdings for account ",
                                  calls[r][k].args[1], ": ", result[2]>>)]
                /\ next_account' = [next_account EXCEPT ![r] = Len(accounts[r]) + 1]
                /\ UNCHANGED all_holdings
    /\ UNCHANGED <<settings, config_port, pc, req, base_currency, accounts,
                   service_result, response>>

\* ... and its result is appended, or its failure written to stderr.
for_account_result(r) ==
    /\ pc[r] = "for_account"
    /\ \E k \in Outstanding(r) :
       \E result \in Failures \cup
                     {Ok(l) : l \in SampleLists(calls[r][k].args[1],
                                                calls[r][k].args[2])} :
        /\ Resolve(r, k, result)
        /\ IF IsOk(result)
           THEN /\ all_holdings' = [all_holdings EXCEPT ![r] =
                                        AppendHoldings(@, result[2])]
                /\ UNCHANGED stderr
           ELSE /\ stderr' = [stderr EXCEPT ![r] =
                      Append(@, <<"Failed to get holdings for account ",
                                  calls[r][k].args[1], ": ", result[2]>>)]
                /\ UNCHANGED all_holdings
    /\ UNCHANGED <<settings, config_port, pc, req, base_currency, accounts,
                   next_account, service_result, response>>

\* Mutant: a failed account fails the request.
for_account_done_strict(r) ==
    /\ pc[r] = "for_account"
    /\ Awaited(r)
    /\ next_account[r] > Len(accounts[r])
    /\ HoldingsAnswer(r, IF stderr[r] = <<>> THEN Ok(all_holdings[r])
                         ELSE Err(stderr[r][1]))
    /\ UNCHANGED <<settings, config_port, req, locals, calls, stderr>>

\* Ok(all_holdings): the loop is over.
for_account_done(r) ==
    /\ pc[r] = "for_account"
    /\ Awaited(r)
    /\ next_account[r] > Len(accounts[r])
    /\ HoldingsAnswer(r, Ok(all_holdings[r]))
    /\ UNCHANGED <<settings, config_port, req, locals, calls, stderr>>

\* ------------------------------------------------- the other provider lists
RateLists == {[k \in 1..n |-> ExchangeRate(k)] : n \in 0..MaxItems}
SummaryLists(q) == {[k \in 1..n |-> QuoteSummary(q, k)] : n \in 0..MaxItems}
QuoteLists(sym) == {[k \in 1..n |-> Quote(sym, k)] : n \in 0..MaxItems}
PerformanceLists(ids) ==
    {Map(SimplePerformanceMetrics, SubSeq(ids, 1, n)) : n \in 0..Len(ids)}
AccountActivityLists(a) == {[k \in 1..n |-> Activity(a, k)] : n \in 0..MaxItems}
AllActivityLists ==
    {[k \in 1..n |-> Activity(((k - 1) % MaxAccounts) + 1, k)] : n \in 0..MaxItems}

\* A service method that made its provider call(s) and returns `result`
\* (with ? an Err passes through); the inline handlers word the Err themselves.
Answer(r, result, body, message) ==
    IF req[r].impl = "core"
    THEN ServiceReturns(r, IF IsOk(result) THEN Ok(body) ELSE result)
    ELSE HandlerReturns(r, IF IsOk(result) THEN body ELSE ErrorBody(message))

\* ------------------------------------------------------------------ accounts
portfolio_accounts_handler(r) ==
    /\ pc[r] = "portfolio_accounts_handler"
    /\ \E result \in Failures \cup {Ok(l) : l \in AccountLists} :
        /\ Returned(r, "accounts.get_all_accounts", <<>>, result)
        /\ Answer(r, result,
                  JObj([accounts |-> JArr(accounts_to_json(result[2]))]),
                  <<"Failed to get accounts: ", result[2]>>)
    /\ UNCHANGED <<settings, config_port, req, locals, stderr>>

\* ------------------------------------------------------------ exchange rates
exchange_rates_handler(r) ==
    /\ pc[r] = "exchange_rates_handler"
    /\ \E result \in Failures \cup {Ok(l) : l \in RateLists} :
        /\ Returned(r, "fx.get_latest_exchange_rates", <<>>, result)
        /\ Answer(r, result,
                  JObj([exchangeRates |-> JArr(exchange_rates_to_json(result[2]))]),
                  <<"Failed to get exchange rates: ", result[2]>>)
    /\ UNCHANGED <<settings, config_port, req, locals, stderr>>

\* ------------------------------------------------------------- base currency
\* Mutant: the option is written as it is, null when unset.
BaseCurrencyValue_Null(option) == JObj([baseCurrency |-> OptJson(JStr, option)])

\* match settings_service.get_base_currency(): the body of an Ok(option).
BaseCurrencyValue(option) ==
    IF IsSome(option) THEN JObj([baseCurrency |-> JStr(option[1])])
    ELSE BaseCurrencyNotSet

base_currency_handler(r) ==
    /\ pc[r] = "base_currency_handler"
    /\ \E result \in Failures \cup {Ok(settings)} :
        /\ Returned(r, "settings.get_base_currency", <<>>, result)
        /\ Answer(r, result, BaseCurrencyValue(result[2]),
                  <<"Failed to get base currency: ", result[2]>>)
    /\ UNCHANGED <<settings, config_port, req, locals, stderr>>

\* --------------------------------------------------------------- market data
\* search_symbol(query).await: issued ...
market_data_search_handler(r) ==
    /\ pc[r] = "market_data_search_handler"
    /\ Issue(r, "market_data.search_symbol", <<req[r].symbol[1]>>)
    /\ pc' = [pc EXCEPT ![r] = "await_search"]
    /\ UNCHANGED <<settings, config_port, req, locals, stderr, service_result,
                   response>>

\* ... and returned.
await_search(r) ==
    /\ pc[r] = "await_search"
    /\ \E k \in Outstanding(r) :
       \E result \in Failures \cup {Ok(l) : l \in SummaryLists(req[r].symbol[1])} :
        /\ Resolve(r, k, result)
        /\ Answer(r, result,
                  JObj([results |-> JArr(quote_summaries_to_json(result[2]))]),
                  <<>>)
    /\ UNCHANGED <<settings, config_port, req, locals, stderr>>

quote_handler(r) ==
    /\ pc[r] = "quote_handler"
    /\ \E result \in Failures \cup {Ok(Quote(req[r].symbol[1], 1))} :
        /\ Returned(r, "market_data.get_latest_quote_for_symbol",
                    <<req[r].symbol[1]>>, result)
        /\ Answer(r, result, JObj([quote |-> quote_to_json(result[2])]), <<>>)
    /\ UNCHANGED <<settings, config_port, req, locals, stderr>>

historical_quotes_handler(r) ==
    /\ pc[r] = "historical_quotes_handler"
    /\ \E result \in Failures \cup {Ok(l) : l \in QuoteLists(req[r].symbol[1])} :
        /\ Returned(r, "market_data.get_historical_quotes_for_symbol",
                    <<req[r].symbol[1]>>, result)
        /\ Answer(r, result,
                  JObj([symbol |-> JStr(req[r].symbol[1]),
                        quotes |-> JArr(quotes_to_json(result[2]))]),
                  <<>>)
    /\ UNCHANGED <<settings, config_port, req, locals, stderr>>

\* --------------------------------------------------------------- performance
\* calculate_performance_summary("account", account_id, None, None).await
account_performance_handler(r) ==
    /\ pc[r] = "account_performance_handler"
    /\ Issue(r, "performance.calculate_performance_summary",
             <<"account", req[r].account_id[1], None, None>>)
    /\ pc' = [pc EXCEPT ![r] = "await_performance"]
    /\ UNCHANGED <<settings, config_port, req, locals, stderr, service_result,
                   response>>

await_performance(r) ==
    /\ pc[r] = "await_performance"
    /\ \E k \in Outstanding(r) :
       \E result \in Failures \cup
                     {Ok(PerformanceMetrics(req[r].account_id[1], p)) :
                         p \in BOOLEAN} :
        /\ Resolve(r, k, result)
        /\ Answer(r, result,
                  JObj([accountId |-> JStr(req[r].account_id[1]),
                        performance |-> performance_to_json(result[2])]),
                  <<>>)
    /\ UNCHANGED <<settings, config_port, req, locals, stderr>>

\* Mutant: only the first account's id is passed.
AccountIdsOf_First(accs) == IF accs = <<>> THEN <<>> ELSE <<accs[1].id>>

\* accounts.iter().map(|a| a.id.clone()).collect()
AccountIdsOf(accs) == [i \in 1..Len(accs) |-> accs[i].id]

\* get_portfolio_performance_summary: the account listing failed (?) ...
performance_summary_accounts_failed(r) ==
    /\ pc[r] = "portfolio_performance_summary_handler"
    /\ \E e \in Errors :
        /\ Returned(r, "accounts.get_all_accounts", <<>>, Err(e))
        /\ ServiceReturns(r, Err(e))
    /\ UNCHANGED <<settings, config_port, req, locals, stderr>>

\* ... or the listing and then the one batched call.
performance_summary(r) ==
    /\ pc[r] = "portfolio_performance_summary_handler"
    /\ \E accs \in AccountLists :
       \E result \in Failures \cup
                     {Ok(l) : l \in PerformanceLists(AccountIdsOf(accs))} :
        /\ calls' = [calls EXCEPT ![r] =
               @ \o <<Call("accounts.get_all_accounts", <<>>, Ok(accs)),
                      Call("performance.calculate_accounts_simple_performance",
                           <<AccountIdsOf(accs)>>, result)>>]
        /\ ServiceReturns(r,
               IF IsOk(result)
               THEN Ok(JObj([performances |->
                                JArr(simple_performances_to_json(result[2]))]))
               ELSE result)
    /\ UNCHANGED <<settings, config_port, req, locals, stderr>>

\* ---------------------------------------------------------------- activities
activities_handler(r) ==
    /\ pc[r] = "activities_handler"
    /\ LET account_id == req[r].account_id
           provider == IF IsSome(account_id)
                       THEN "activity.get_activities_by_account_id"
                       ELSE "activity.get_activities"
           args == IF IsSome(account_id) THEN <<account_id[1]>> ELSE <<>>
           lists == IF IsSome(account_id)
                    THEN AccountActivityLists(account_id[1])
                    ELSE AllActivityLists
       IN  \E result \in Failures \cup {Ok(l) : l \in lists} :
            /\ Returned(r, provider, args, result)
            /\ ServiceReturns(r,
                   IF IsOk(result)
                   THEN Ok(JObj([activities |->
                                    JArr(activities_to_json(result[2]))]))
                   ELSE result)
    /\ UNCHANGED <<settings, config_port, req, locals, stderr>>

\* ------------------------------------------------------------- environment
\* The configured base currency is changed or cleared by the application.
SetBaseCurrency ==
    /\ \E s \in {None} \cup {Some(c) : c \in Currencies} :
        /\ s # settings
        /\ settings' = s
    /\ UNCHANGED <<config_port, pc, req, locals, calls, stderr, service_result,
                   response>>

\* ------------------------------------------------------------ specification
Step(r) ==
    \/ Dispatch(r)
    \/ CoreCall(r)
    \/ health_handler(r)
    \/ root_handler(r)
    \/ get_base_currency_failed(r)
    \/ get_base_currency_unset(r)
    \/ get_base_currency_set(r)
    \/ get_holdings_single(r)
    \/ await_single(r)
    \/ get_all_accounts_failed(r)
    \/ get_all_accounts_ok(r)
    \/ for_account_call(r)
    \/ for_account_result(r)
    \/ for_account_done(r)
    \/ portfolio_accounts_handler(r)
    \/ exchange_rates_handler(r)
    \/ base_currency_handler(r)
    \/ market_data_search_handler(r)
    \/ await_search(r)
    \/ quote_handler(r)
    \/ historical_quotes_handler(r)
    \/ account_performance_handler(r)
    \/ await_performance(r)
    \/ performance_summary_accounts_failed(r)
    \/ performance_summary(r)
    \/ activities_handler(r)

Next ==
    \/ \E r \in Solo : Step(r)
    \/ SetBaseCurrency

Spec == Init /\ [][Next]_vars

\* ------------------------------------------------------ concurrent requests
\* An all-accounts holdings request arrives: the server's route, or the core's
\* handler called with an empty query.
holdings_request(r) ==
    /\ pc[r] = "idle"
    /\ \E impl \in {"core", "server"} :
        req' = [req EXCEPT ![r] =
            [impl |-> impl, via |-> IF impl = "core" THEN "call" ELSE "router",
             path |-> IF impl = "core" THEN "none" ELSE "/api/portfolio/holdings",
             handler |-> "portfolio_holdings_handler",
             account_id |-> None, symbol |-> None]]
    /\ pc' = [pc EXCEPT ![r] = "portfolio_holdings_handler"]
    /\ UNCHANGED <<settings, config_port, locals, calls, stderr, service_result,
                   response>>

\* The steps of one all-accounts holdings request.
HoldingsStep(r) ==
    \/ holdings_request(r)
    \/ get_base_currency_failed(r)
    \/ get_base_currency_unset(r)
    \/ get_base_currency_set(r)
    \/ get_all_accounts_failed(r)
    \/ get_all_accounts_ok(r)
    \/ for_account_call(r)
    \/ for_account_result(r)
    \/ for_account_done(r)

\* The runtime runs the handlers of the requests in flight in any interleaving.
ConcurrentNext == \E r \in Reqs : HoldingsStep(r)

ConcurrentSpec == Init /\ [][ConcurrentNext]_vars

\* ------------------------------------------------------------- observations
Done(r) == pc[r] = "done"
IsHoldingsRequest(r) == req[r].handler = "portfolio_holdings_handler"
AllAccountsRequest(r) == IsHoldingsRequest(r) /\ req[r].account_id = None
SingleAccountRequest(r) == IsHoldingsRequest(r) /\ req[r].account_id # None

\* The calls request r made to one provider, in the order it made them.
CallsTo(r, provider) ==
    SelectSeq(calls[r], LAMBDA c : c.provider = provider)

HoldingsCalls(r) == CallsTo(r, "holdings.get_holdings")
AccountsCalls(r) == CallsTo(r, "accounts.get_all_accounts")
SettingsCalls(r) == CallsTo(r, "settings.get_base_currency")

\* The account list request r obtained from the account provider.
ListedAccounts(r) == AccountsCalls(r)[1].result[2]
AccountsListed(r) ==
    Len(AccountsCalls(r)) = 1 /\ IsOk(AccountsCalls(r)[1].result)

\* What each holdings call contributed: its list, or nothing when it failed.
Contribution(c) == IF IsOk(c.result) THEN c.result[2] ELSE <<>>
ReturnedHoldings(r) == Concat(Map(Contribution, HoldingsCalls(r)))

\* -------------------------------------------------------------------- claims

\* C1: with no account id, the holdings of the body are the concatenation, in
\* the account provider's order, of the lists the holdings provider returned
\* for each listed account with the request's base currency; an account whose
\* call failed contributes nothing; nothing is dropped, duplicated, merged
\* across accounts or re-ordered.
C1_AllAccountsConcatenation ==
    \A r \in Reqs :
        (Done(r) /\ AllAccountsRequest(r) /\ AccountsListed(r)) =>
            LET accs == ListedAccounts(r)
                hc == HoldingsCalls(r)
            IN  /\ Len(hc) = Len(accs)
                /\ \A i \in 1..Len(hc) :
                       hc[i].args = <<accs[i].id, base_currency[r][1]>>
                /\ IsObj(response[r])
                /\ "holdings" \in Keys(response[r])
                /\ Get(response[r], "holdings") =
                       JArr(HoldingsData(req[r].impl, ReturnedHoldings(r)))

\* Two listed accounts, the second listed first, both with two holdings (the
\* same instruments in both), answered.
C1_Witness ==
    \E r \in Reqs :
        /\ Done(r) /\ AllAccountsRequest(r) /\ AccountsListed(r)
        /\ Len(ListedAccounts(r)) = 2
        /\ ListedAccounts(r)[1].id = 2
        /\ \A i \in 1..2 : /\ IsOk(HoldingsCalls(r)[i].result)
                           /\ Len(HoldingsCalls(r)[i].result[2]) = 2
        /\ Len(Items(Get(response[r], "holdings"))) = 4

\* C2: when the settings provider reports the base currency unset, a holdings
\* request (with or without account id) answers exactly
\* {error: "Base currency not set"} and calls neither the holdings nor the
\* account provider.
C2_UnsetBaseCurrency ==
    \A r \in Reqs :
        (/\ Done(r) /\ IsHoldingsRequest(r)
         /\ SettingsCalls(r) # <<>>
         /\ SettingsCalls(r)[1].result = Ok(None)) =>
            /\ response[r] = JObj([error |-> JStr(<<"Base currency not set">>)])
            /\ HoldingsCalls(r) = <<>>
            /\ AccountsCalls(r) = <<>>
            /\ Len(calls[r]) = 1

\* A single-account holdings request of the core answered with the base
\* currency unset.
C2_Witness ==
    \E r \in Reqs :
        /\ Done(r) /\ SingleAccountRequest(r) /\ req[r].impl = "core"
        /\ SettingsCalls(r)[1].result = Ok(None)
        /\ Keys(response[r]) = {"error"}

\* C3: in the all-accounts path, once the base currency is set and the account
\* list obtained, the body has the keys holdings and baseCurrency and no error
\* key whatever subset of the per-account calls failed; when every call failed
\* it is {holdings: [], baseCurrency: C}.
C3_AllAccountsNeverError ==
    \A r \in Reqs :
        (/\ Done(r) /\ AllAccountsRequest(r)
         /\ base_currency[r] # None /\ AccountsListed(r)) =>
            /\ IsObj(response[r])
            /\ Keys(response[r]) = {"holdings", "baseCurrency"}
            /\ Get(response[r], "baseCurrency") = JStr(base_currency[r][1])
            /\ (\A i \in 1..Len(HoldingsCalls(r)) :
                    IsErr(HoldingsCalls(r)[i].result)) =>
                   response[r] = JObj([holdings |-> JArr(<<>>),
                                       baseCurrency |-> JStr(base_currency[r][1])])

\* Two listed accounts: the first call returned one holding, the second failed.
C3_Witness ==
    \E r \in Reqs :
        /\ Done(r) /\ AllAccountsRequest(r) /\ AccountsListed(r)
        /\ Len(HoldingsCalls(r)) = 2
        /\ IsOk(HoldingsCalls(r)[1].result)
        /\ Len(HoldingsCalls(r)[1].result[2]) = 1
        /\ IsErr(HoldingsCalls(r)[2].result)
        /\ Len(stderr[r]) = 1
        /\ Len(Items(Get(response[r], "holdings"))) = 1

\* C4: with an account id, a failed holdings call answers a body whose only
\* key is error, carrying the failure; exactly one holdings call was made, for
\* that account id, and the account provider was not called.
C4_SingleAccountFailure ==
    \A r \in Reqs :
        (/\ Done(r) /\ SingleAccountRequest(r)
         /\ \E i \in 1..Len(HoldingsCalls(r)) : IsErr(HoldingsCalls(r)[i].result)) =>
            LET hc == HoldingsCalls(r)
                message == Get(response[r], "error")[2]
            IN  /\ IsObj(response[r])
                /\ Keys(response[r]) = {"error"}
                /\ message[Len(message)] = hc[1].result[2]
                /\ Len(hc) = 1
                /\ hc[1].args[1] = req[r].account_id[1]
                /\ AccountsCalls(r) = <<>>

\* A single-account request of the server whose holdings call failed.
C4_Witness ==
    \E r \in Reqs :
        /\ Done(r) /\ SingleAccountRequest(r) /\ req[r].impl = "server"
        /\ Len(HoldingsCalls(r)) = 1
        /\ HoldingsCalls(r)[1].result = Err("database")
        /\ Keys(response[r]) = {"error"}

\* C5: within one all-accounts request the per-account holdings calls are
\* sequential: at most one is outstanding, and a call is issued only after
\* every earlier call of the request has returned.
C5_SequentialCalls ==
    \A r \in Reqs :
        AllAccountsRequest(r) =>
            /\ Cardinality(Outstanding(r)) <= 1
            /\ \A k \in 1..Len(calls[r]) :
                   calls[r][k].result = Pending => k = Len(calls[r])

\* The call for the second account is outstanding, the first has returned.
C5_Witness ==
    \E r \in Reqs :
        /\ AllAccountsRequest(r)
        /\ Len(HoldingsCalls(r)) = 2
        /\ HoldingsCalls(r)[1].result # Pending
        /\ HoldingsCalls(r)[2].result = Pending
        /\ Cardinality(Outstanding(r)) = 1

\* C6: the performance summary makes one call to the batched simple-
\* performance provider, with the ids of all listed accounts in the account
\* provider's order (and never a second one); when that call or the account
\* listing fails the body has the single key error and no performances.
C6_PerformanceSummary ==
    \A r \in Reqs :
        (Done(r) /\ req[r].handler = "portfolio_performance_summary_handler") =>
            LET batched == CallsTo(r, "performance.calculate_accounts_simple_performance")
                failed == \E k \in 1..Len(calls[r]) : IsErr(calls[r][k].result)
            IN  /\ Len(batched) <= 1
                /\ Len(AccountsCalls(r)) = 1
                /\ AccountsListed(r) =>
                       /\ Len(batched) = 1
                       /\ batched[1].args =
                              <<[i \in 1..Len(ListedAccounts(r)) |->
                                    ListedAccounts(r)[i].id]>>
                /\ IsObj(response[r])
                /\ failed => Keys(response[r]) = {"error"}
                /\ ~failed => Keys(response[r]) = {"performances"}

\* Two accounts listed, the second first, and the batched call failed.
C6_Witness ==
    \E r \in Reqs :
        /\ Done(r) /\ req[r].handler = "portfolio_performance_summary_handler"
        /\ AccountsListed(r)
        /\ Len(ListedAccounts(r)) = 2 /\ ListedAccounts(r)[1].id = 2
        /\ IsErr(calls[r][2].result)
        /\ Keys(response[r]) = {"error"}

\* C7: the base-currency endpoint answers {baseCurrency: C} when C is
\* configured and exactly {error: "Base currency not set"} when none is; the
\* unset answer is a value of the service, not a failure of it.
C7_BaseCurrencyEndpoint ==
    \A r \in Reqs :
        (/\ Done(r) /\ req[r].handler = "base_currency_handler"
         /\ IsOk(calls[r][1].result)) =>
            LET option == calls[r][1].result[2]
            IN  /\ Len(calls[r]) = 1
                /\ IsSome(option) =>
                       response[r] = JObj([baseCurrency |-> JStr(option[1])])
                /\ option = None =>
                       response[r] =
                           JObj([error |-> JStr(<<"Base currency not set">>)])
                /\ req[r].impl = "core" =>
                       service_result[r] = Ok(response[r])

\* The core's endpoint answered while no base currency was configured.
C7_Witness ==
    \E r \in Reqs :
        /\ Done(r) /\ req[r].handler = "base_currency_handler"
        /\ req[r].impl = "core"
        /\ calls[r][1].result = Ok(None)
        /\ IsOk(service_result[r])
        /\ Keys(response[r]) = {"error"}

\* The keys of each handler's success body.
SuccessKeys(handler) ==
    CASE handler = "health_handler" -> {"status", "timestamp", "port"}
      [] handler = "root_handler" -> {"message", "status", "port"}
      [] handler = "portfolio_holdings_handler" -> {"holdings", "baseCurrency"}
      [] handler = "portfolio_accounts_handler" -> {"accounts"}
      [] handler = "exchange_rates_handler" -> {"exchangeRates"}
      [] handler = "base_currency_handler" -> {"baseCurrency"}
      [] handler = "market_data_search_handler" -> {"results"}
      [] handler = "quote_handler" -> {"quote"}
      [] handler = "historical_quotes_handler" -> {"symbol", "quotes"}
      [] handler = "account_performance_handler" -> {"accountId", "performance"}
      [] handler = "portfolio_performance_summary_handler" -> {"performances"}
      [] handler = "activities_handler" -> {"activities"}

\* C8: whatever the providers return, every handler ends with a JSON object
\* that is either its success shape or an object whose only key is error; a
\* failure of the service is turned into such an error body, and no body has
\* an error key beside other keys.
C8_SuccessOrErrorBody ==
    \A r \in Reqs :
        (Done(r) /\ req[r].handler # "none") =>
            /\ IsObj(response[r])
            /\ \/ Keys(response[r]) = {"error"}
               \/ Keys(response[r]) = SuccessKeys(req[r].handler)
            /\ "error" \in Keys(response[r]) => Keys(response[r]) = {"error"}
            /\ (service_result[r] # NoResult /\ IsErr(service_result[r])) =>
                   /\ Keys(response[r]) = {"error"}
                   /\ LET message == Get(response[r], "error")[2]
                      IN  message[Len(message)] = service_result[r][2]

\* The core's quote handler answered after its service failed.
C8_Witness ==
    \E r \in Reqs :
        /\ Done(r) /\ req[r].handler = "quote_handler"
        /\ service_result[r] = Err("not_found")
        /\ response[r] =
               JObj([error |-> JStr(<<"Failed to get quote for ", "AAPL", ": ",
                                      "not_found">>)])

\* C9: every logical operation of the aggregation service is bound to a route
\* of the external API router, so that a GET on each of the twelve routes of
\* the HTTP surface reaches its handler (and is not answered by the router
\* itself for want of a route).
C9_EveryRouteReachesItsHandler ==
    \A r \in Reqs :
        (req[r].via = "router" /\ req[r].path \in HttpSurface) =>
            /\ req[r].handler # "none"
            /\ response[r] # NotFound

\* The optional monetary fields of a holding: JSON key and domain field.
OptionalPairs ==
    {<<"costBasis", "cost_basis">>, <<"unrealizedGain", "unrealized_gain">>,
     <<"realizedGain", "realized_gain">>, <<"totalGain", "total_gain">>,
     <<"dayChange", "day_change">>}

IsPairObject(v) == IsObj(v) /\ Keys(v) = {"local", "base"}

\* C10: in every projected holding each optional monetary field is null when
\* the domain field is absent and an object with exactly the keys local and
\* base when it is present, marketValue is always such an object, and none of
\* the keys is omitted.
C10_MonetaryPairs ==
    \A r \in Reqs :
        (/\ Done(r) /\ IsHoldingsRequest(r) /\ IsObj(response[r])
         /\ "holdings" \in Keys(response[r])) =>
            LET projected == Items(Get(response[r], "holdings"))
                holdings == ReturnedHoldings(r)
            IN  /\ Len(projected) = Len(holdings)
                /\ \A i \in 1..Len(projected) :
                    /\ IsObj(projected[i])
                    /\ "marketValue" \in Keys(projected[i])
                    /\ IsPairObject(Get(projected[i], "marketValue"))
                    /\ \A f \in OptionalPairs :
                        /\ f[1] \in Keys(projected[i])
                        /\ IsSome(holdings[i][f[2]]) =>
                               /\ IsPairObject(Get(projected[i], f[1]))
                               /\ Get(Get(projected[i], f[1]), "local") =
                                      JNum(holdings[i][f[2]][1].local)
                               /\ Get(Get(projected[i], f[1]), "base") =
                                      JNum(holdings[i][f[2]][1].base)
                        /\ holdings[i][f[2]] = None =>
                               IsNull(Get(projected[i], f[1]))

\* A holding with a cost basis and a day change but no other gain, projected
\* by the server.
C10_Witness ==
    \E r \in Reqs :
        /\ Done(r) /\ SingleAccountRequest(r) /\ req[r].impl = "server"
        /\ IsObj(response[r]) /\ "holdings" \in Keys(response[r])
        /\ Len(ReturnedHoldings(r)) = 1
        /\ LET h == ReturnedHoldings(r)[1]
               j == Items(Get(response[r], "holdings"))[1]
           IN  /\ IsSome(h.cost_basis) /\ IsSome(h.day_change)
               /\ h.unrealized_gain = None /\ h.realized_gain = None
               /\ h.total_gain = None
               /\ IsPairObject(Get(j, "costBasis"))
               /\ IsNull(Get(j, "totalGain"))


\* C11: a holdings request reads the base currency from the settings provider
\* once, before any account or holdings call; every holdings call of the
\* request carries the value read and the body's baseCurrency is that value,
\* also when the configured base currency changes while the request runs.
C11_BaseCurrencyReadOnce ==
    \A r \in Reqs :
        (IsHoldingsRequest(r) /\ calls[r] # <<>>) =>
            /\ calls[r][1].provider = "settings.get_base_currency"
            /\ Len(SettingsCalls(r)) = 1
            /\ \A i \in 1..Len(HoldingsCalls(r)) :
                   /\ IsOk(calls[r][1].result)
                   /\ HoldingsCalls(r)[i].args[2] = calls[r][1].result[2][1]
            /\ (Done(r) /\ IsObj(response[r])
                        /\ "baseCurrency" \in Keys(response[r])) =>
                   Get(response[r], "baseCurrency") =
                       JStr(calls[r][1].result[2][1])

\* An all-accounts request read USD, made two holdings calls and answered
\* while the configured base currency had become EUR.
C11_Witness ==
    \E r \in Reqs :
        /\ Done(r) /\ AllAccountsRequest(r)
        /\ calls[r][1].result = Ok(Some("USD"))
        /\ Len(HoldingsCalls(r)) = 2
        /\ settings = Some("EUR")
        /\ Get(response[r], "baseCurrency") = JStr("USD")


InstrumentKeys ==
    {"id", "symbol", "name", "currency", "assetClass", "assetSubclass",
     "countries", "sectors"}

\* C12: every implementation of the holdings endpoint projects a present
\* instrument as an object with the eight keys id, symbol, name, currency,
\* assetClass, assetSubclass, countries and sectors, and an absent instrument
\* as the key instrument with the value null.
C12_InstrumentProjection ==
    \A r \in Reqs :
        (/\ Done(r) /\ IsHoldingsRequest(r) /\ IsObj(response[r])
         /\ "holdings" \in Keys(response[r])) =>
            LET projected == Items(Get(response[r], "holdings"))
                holdings == ReturnedHoldings(r)
            IN  \A i \in 1..Len(projected) :
                    /\ "instrument" \in Keys(projected[i])
                    /\ IsSome(holdings[i].instrument) =>
                           /\ IsObj(Get(projected[i], "instrument"))
                           /\ Keys(Get(projected[i], "instrument")) = InstrumentKeys
                    /\ holdings[i].instrument = None =>
                           IsNull(Get(projected[i], "instrument"))


ActivitiesRequest(r) == req[r].handler = "activities_handler"

\* C13: a get-activities request makes exactly one call to the activity
\* provider, the by-account call with the identifier when one is supplied and
\* the all-activities call otherwise; on success the activities list has one
\* projected entry per record, in the provider's order; on failure the body is
\* the single key error.
C13_Activities ==
    \A r \in Reqs :
        (Done(r) /\ ActivitiesRequest(r)) =>
            /\ Len(calls[r]) = 1
            /\ IF IsSome(req[r].account_id)
               THEN /\ calls[r][1].provider = "activity.get_activities_by_account_id"
                    /\ calls[r][1].args = <<req[r].account_id[1]>>
               ELSE /\ calls[r][1].provider = "activity.get_activities"
                    /\ calls[r][1].args = <<>>
            /\ IF IsOk(calls[r][1].result)
               THEN LET records == calls[r][1].result[2]
                        entries == Items(Get(response[r], "activities"))
                    IN  /\ Keys(response[r]) = {"activities"}
                        /\ Len(entries) = Len(records)
                        /\ \A i \in 1..Len(records) :
                               Get(entries[i], "id") = JStr(records[i].id)
               ELSE Keys(response[r]) = {"error"}

C13_Witness ==
    \E r \in Reqs :
        /\ Done(r) /\ ActivitiesRequest(r) /\ IsSome(req[r].account_id)
        /\ IsOk(calls[r][1].result)
        /\ Len(Items(Get(response[r], "activities"))) = MaxItems


\* The body a holdings request produces from the provider results it received
\* itself, whatever else is in flight.
OwnMessage(r, words, e) ==
    IF req[r].impl = "core" THEN CoreHandlerMessage(req[r], e) ELSE <<words, e>>

AloneBody(r) ==
    LET read == calls[r][1].result
    IN  IF IsErr(read)
        THEN ErrorBody(OwnMessage(r, "Failed to get base currency: ", read[2]))
        ELSE IF read[2] = None THEN BaseCurrencyNotSet
        ELSE IF IsErr(calls[r][2].result)
        THEN ErrorBody(OwnMessage(r, "Failed to get accounts: ",
                                  calls[r][2].result[2]))
        ELSE HoldingsBody(HoldingsData(req[r].impl, ReturnedHoldings(r)),
                          read[2][1])

\* C15: with requests processed concurrently in any interleaving, the response
\* of each request is the one it produces alone from the provider results it
\* received itself; nothing one request writes (the holdings accumulator in
\* particular) is read by another.
C15_RequestsIndependent ==
    \A r \in Reqs :
        (Done(r) /\ AllAccountsRequest(r)) =>
            /\ response[r] = AloneBody(r)
            /\ AccountsListed(r) => all_holdings[r] = ReturnedHoldings(r)

C15_Witness ==
    /\ \A r \in Reqs : Done(r) /\ AllAccountsRequest(r) /\ AccountsListed(r)
    /\ Len(ReturnedHoldings("r1")) = 1
    /\ Len(ReturnedHoldings("r2")) = 2 * MaxHoldings
    /\ Len(Items(Get(response["r1"], "holdings"))) = 1


\* C16: in an all-accounts request over N listed accounts, every provider call
\* completing or failing, the holdings provider is called once per listed
\* account in list order and N times in all: a failed call is not retried and
\* does not stop the calls for the remaining accounts; while the request is
\* not answered it has a step to take, and it ends answered.
C16_OneCallPerAccount ==
    \A r \in Reqs :
        (AllAccountsRequest(r) /\ AccountsListed(r)) =>
            LET accs == ListedAccounts(r)
                hc == HoldingsCalls(r)
            IN  /\ Len(hc) <= Len(accs)
                /\ \A i \in 1..Len(hc) : hc[i].args[1] = accs[i].id
                /\ Len(calls[r]) = 2 + Len(hc)
                /\ Done(r) => /\ Len(hc) = Len(accs)
                              /\ Outstanding(r) = {}
                              /\ IsObj(response[r])
                /\ ~Done(r) => ENABLED Step(r)

C16_Witness ==
    \E r \in Reqs :
        /\ Done(r) /\ AllAccountsRequest(r) /\ AccountsListed(r)
        /\ Len(ListedAccounts(r)) = MaxAccounts
        /\ IsErr(HoldingsCalls(r)[1].result)
        /\ IsOk(HoldingsCalls(r)[MaxAccounts].result)
        /\ Len(HoldingsCalls(r)) = MaxAccounts


\* A prerequisite call of a holdings request: the base currency read, or the
\* account listing.
IsPrerequisite(c) ==
    c.provider \in {"settings.get_base_currency", "accounts.get_all_accounts"}

\* C17: in get-holdings a failed prerequisite call (the base currency read, or
\* the account listing of the all-accounts path) ends the request with a body
\* whose only key is error, and no holdings call is made after the failure.
C17_PrerequisiteFailure ==
    \A r \in Reqs :
        IsHoldingsRequest(r) =>
            \A i \in 1..Len(calls[r]) :
                (IsPrerequisite(calls[r][i]) /\ IsErr(calls[r][i].result)) =>
                    /\ i = Len(calls[r])
                    /\ HoldingsCalls(r) = <<>>
                    /\ Done(r)
                    /\ IsObj(response[r])
                    /\ Keys(response[r]) = {"error"}

C17_Witness ==
    \E r \in Reqs :
        /\ Done(r) /\ AllAccountsRequest(r)
        /\ Len(calls[r]) = 2
        /\ calls[r][2].provider = "accounts.get_all_accounts"
        /\ IsErr(calls[r][2].result)
        /\ Keys(response[r]) = {"error"}


\* The kind of a body: error-only, or holdings plus baseCurrency.
BodyKind(body) ==
    IF ~IsObj(body) THEN "other"
    ELSE IF Keys(body) = {"error"} THEN "error"
    ELSE IF Keys(body) = {"holdings", "baseCurrency"} THEN "holdings"
    ELSE "other"

\* The provider calls the core makes on the outcomes request r received.
CoreCalls(r) ==
    LET read == calls[r][1].result
        first == <<[provider |-> "settings.get_base_currency", args |-> <<>>]>>
        holdings_call(a) ==
            [provider |-> "holdings.get_holdings", args |-> <<a, read[2][1]>>]
    IN  IF IsErr(read) \/ read[2] = None THEN first
        ELSE IF req[r].account_id # None
        THEN first \o <<holdings_call(req[r].account_id[1])>>
        ELSE first \o <<[provider |-> "accounts.get_all_accounts", args |-> <<>>]>>
                   \o (IF IsErr(calls[r][2].result) THEN <<>>
                       ELSE [i \in 1..Len(calls[r][2].result[2]) |->
                                holdings_call(calls[r][2].result[2][i].id)])

\* The kind of body the core answers on those outcomes.
CoreKind(r) ==
    IF \/ calls[r][1].result = Ok(None)
       \/ \E i \in 1..Len(calls[r]) :
              /\ IsErr(calls[r][i].result)
              /\ IsPrerequisite(calls[r][i]) \/ req[r].account_id # None
    THEN "error" ELSE "holdings"

\* C18: on every combination of provider outcomes the core, the server and the
\* tauri implementation of the holdings endpoint make the same sequence of
\* provider calls and answer the same kind of body with the same holdings in
\* the same order; only the text of an error message may differ.
C18_ImplementationsAgree ==
    \A r \in Reqs :
        (Done(r) /\ IsHoldingsRequest(r)) =>
            /\ [i \in 1..Len(calls[r]) |->
                   [provider |-> calls[r][i].provider, args |-> calls[r][i].args]]
                 = CoreCalls(r)
            /\ BodyKind(response[r]) = CoreKind(r)
            /\ CoreKind(r) = "holdings" =>
                   response[r] = HoldingsBody(holdings_to_json(ReturnedHoldings(r)),
                                              calls[r][1].result[2][1])


====
